---- MODULE Spec2Model ----
(***************************************************************************)
(* Model of the allocation engine of src/src/ProductAllocationApp.tsx:     *)
(* the React state (state, errors, versionKey) and the five handlers       *)
(* runAutoAssignment, updateAllocation, resetAllocations, saveAllocations  *)
(* and addNewOrder.                                                        *)
(*                                                                         *)
(* Money is counted in quarters of a currency unit, so that the price      *)
(* 515.75 is the integer 2063 and the credit 3000.00 is 12000; every       *)
(* product allocatedQty * pricePerUnit is then exact, as it is in IEEE     *)
(* doubles for these values.                                               *)
(*                                                                         *)
(* A JavaScript number is an integer, or one of the two values NaN and     *)
(* Infinity that the division by a zero price produces.                    *)
(***************************************************************************)
EXTENDS Integers, Sequences, FiniteSets, TLC

VARIABLES state, errors, versionKey, lastCall

vars == <<state, errors, versionKey, lastCall>>

(***************************************************************************)
(* Bounds of the model.                                                    *)
(***************************************************************************)
MaxVersion == 3
MaxOrders == 3
MaxNewQty == 3
MaxCredit == 2
MaxPrice == 2
MaxReq == 2
MaxStock == 2

(***************************************************************************)
(* JavaScript numbers.                                                     *)
(***************************************************************************)
NaN == -1000000
Infinity == 1000000

IsNum(x) == x # NaN /\ x # Infinity

\* a + b, a - b, a * b on finite operands or NaN
JsAdd(a, b) == IF a = NaN \/ b = NaN THEN NaN ELSE a + b
JsSub(a, b) == IF a = NaN \/ b = NaN THEN NaN ELSE a - b
JsMul(a, b) == IF a = NaN \/ b = NaN THEN NaN ELSE a * b

\* Math.min and Math.max: NaN if any argument is NaN
JsMin(a, b) == IF a = NaN \/ b = NaN THEN NaN ELSE IF a <= b THEN a ELSE b
JsMax(a, b) == IF a = NaN \/ b = NaN THEN NaN ELSE IF a >= b THEN a ELSE b

\* a < b, a > b, a === b: false as soon as an operand is NaN
JsLt(a, b) == a # NaN /\ b # NaN /\ a < b
JsGt(a, b) == a # NaN /\ b # NaN /\ a > b
JsStrictEq(a, b) == a # NaN /\ b # NaN /\ a = b

\* Math.floor(credit / price) for credit >= 0, price >= 0:
\* x / 0 is Infinity for x > 0, and 0 / 0 is NaN
FloorDiv(credit, price) ==
    IF price = 0
    THEN IF credit = 0 THEN NaN ELSE Infinity
    ELSE credit \div price

\* the comparison of line 105 with >= for >
GeQuotient(qty, credit, price) ==
    IF qty = NaN THEN FALSE
    ELSE IF price = 0 THEN FALSE
    ELSE qty * price >= credit

\* allocatedQty > credit / price (the quotient is not floored)
GtQuotient(qty, credit, price) ==
    IF qty = NaN THEN FALSE
    ELSE IF price = 0 THEN FALSE
    ELSE qty * price > credit

(***************************************************************************)
(* Order ids: `ORDER-${String(n).padStart(3, '0')}`.                       *)
(***************************************************************************)
Digit == <<"0", "1", "2", "3", "4", "5", "6", "7", "8", "9">>

RECURSIVE String(_)
String(n) == IF n < 10 THEN Digit[n + 1] ELSE String(n \div 10) \o Digit[(n % 10) + 1]

RECURSIVE PadStart(_, _, _)
PadStart(s, targetLength, pad) ==
    IF Len(s) >= targetLength THEN s ELSE PadStart(pad \o s, targetLength, pad)

OrderId(n) == "ORDER-" \o PadStart(String(n), 3, "0")

(***************************************************************************)
(* Program constants (lines 37-67 and 195-205).                            *)
(***************************************************************************)
InitialTotalStock == 10
InitialRequestedQty == 10
DefaultPricePerUnit == 2063
InitialCreditRemaining == 12000

NewOrderRecord(id, customerId, requestedQty, pricePerUnit) ==
    [id |-> id, customerId |-> customerId, productId |-> "product",
     requestedQty |-> requestedQty, allocatedQty |-> 0,
     suggestion |-> requestedQty, pricePerUnit |-> pricePerUnit, total |-> 0]

InitialState ==
    [totalStock |-> InitialTotalStock,
     remainingStock |-> InitialTotalStock,
     orders |-> <<NewOrderRecord("ORDER-001", "company1", InitialRequestedQty,
                                 DefaultPricePerUnit)>>,
     customers |-> <<[id |-> "company1", creditRemaining |-> InitialCreditRemaining,
                      closingBalance |-> InitialCreditRemaining]>>,
     products |-> <<[id |-> "product", pricePerUnit |-> DefaultPricePerUnit]>>]

NoCall == [op |-> "none", orderId |-> ""]

Init ==
    /\ state = InitialState
    /\ errors = <<>>
    /\ versionKey = 1
    /\ lastCall = NoCall

(***************************************************************************)
(* Array helpers.                                                          *)
(***************************************************************************)
\* state.customers.find(c => c.id === customerId): index of the first match, 0 if none
FindCustomer(customers, customerId) ==
    IF \E i \in 1..Len(customers) : customers[i].id = customerId
    THEN CHOOSE i \in 1..Len(customers) :
            /\ customers[i].id = customerId
            /\ \A j \in 1..(i - 1) : customers[j].id # customerId
    ELSE 0

\* newOrders.findIndex(o => o.id === orderId): index of the first match, 0 if none
FindIndex(orders, orderId) ==
    IF \E i \in 1..Len(orders) : orders[i].id = orderId
    THEN CHOOSE i \in 1..Len(orders) :
            /\ orders[i].id = orderId
            /\ \A j \in 1..(i - 1) : orders[j].id # orderId
    ELSE 0

\* (customer?.creditRemaining || 0)
SortKey(customers, order) ==
    LET c == FindCustomer(customers, order.customerId)
    IN IF c = 0 THEN 0 ELSE customers[c].creditRemaining

\* a sort that is not stable: o goes before the elements whose key equals its own
InsertBeforeEqualCredit(customers, sorted, o) ==
    LET notLarger == {i \in 1..Len(sorted) :
                          SortKey(customers, sorted[i]) <= SortKey(customers, o)}
        at == IF notLarger = {} THEN Len(sorted) + 1
              ELSE CHOOSE i \in notLarger : \A j \in notLarger : i <= j
    IN SubSeq(sorted, 1, at - 1) \o <<o>> \o SubSeq(sorted, at, Len(sorted))

\* one insertion of the stable sort: o goes after every element whose key is >= its own
InsertByCredit(customers, sorted, o) ==
    LET smaller == {i \in 1..Len(sorted) :
                        SortKey(customers, sorted[i]) < SortKey(customers, o)}
        at == IF smaller = {} THEN Len(sorted) + 1
              ELSE CHOOSE i \in smaller : \A j \in smaller : i <= j
    IN SubSeq(sorted, 1, at - 1) \o <<o>> \o SubSeq(sorted, at, Len(sorted))

\* newOrders.sort((a, b) => keyB - keyA): stable, descending by the customer's credit
RECURSIVE SortOrders(_, _)
SortOrders(customers, orders) ==
    IF orders = <<>> THEN <<>>
    ELSE InsertByCredit(customers,
                        SortOrders(customers, SubSeq(orders, 1, Len(orders) - 1)),
                        orders[Len(orders)])

\* reduce((sum, o) => sum + o.allocatedQty, 0)
RECURSIVE SumAllocated(_)
SumAllocated(orders) ==
    IF orders = <<>> THEN 0
    ELSE JsAdd(SumAllocated(SubSeq(orders, 1, Len(orders) - 1)),
               orders[Len(orders)].allocatedQty)

\* reduce((sum, o) => o.id !== orderId ? sum + o.allocatedQty : sum, 0)
RECURSIVE SumAllocatedExcept(_, _)
SumAllocatedExcept(orders, orderId) ==
    IF orders = <<>> THEN 0
    ELSE LET rest == SumAllocatedExcept(SubSeq(orders, 1, Len(orders) - 1), orderId)
             o == orders[Len(orders)]
         IN IF o.id # orderId THEN JsAdd(rest, o.allocatedQty) ELSE rest

(***************************************************************************)
(* runAutoAssignment (lines 73-120).                                       *)
(***************************************************************************)
\* the body of newOrders.forEach for one order (lines 88-111)
AutoOrder(customers, order, remainingStock) ==
    LET c == FindCustomer(customers, order.customerId)
    IN IF c = 0
       THEN [order |-> order, remainingStock |-> remainingStock, errors |-> <<>>]
       ELSE LET customer == customers[c]
                maxAffordableQty == FloorDiv(customer.creditRemaining, order.pricePerUnit)
                maxAllowableQty == JsMin(JsMin(order.requestedQty, remainingStock),
                                         maxAffordableQty)
                allocatedQty == JsMax(0, maxAllowableQty)
                creditError ==
                    IF GtQuotient(allocatedQty, customer.creditRemaining, order.pricePerUnit)
                    THEN <<"Order " \o order.id \o ": Exceeds customer credit limit">>
                    ELSE <<>>
                requestedError ==
                    IF JsGt(allocatedQty, order.requestedQty)
                    THEN <<"Order " \o order.id \o ": Allocation exceeds requested quantity">>
                    ELSE <<>>
            IN [order |-> [order EXCEPT !.allocatedQty = allocatedQty,
                                        !.total = JsMul(allocatedQty, order.pricePerUnit)],
                remainingStock |-> JsSub(remainingStock, allocatedQty),
                errors |-> creditError \o requestedError]

\* a pass that checks each order against what its customer has left after the orders
\* walked before it
RECURSIVE AutoWalkRunningCredit(_, _, _)
AutoWalkRunningCredit(customers, orders, totalStock) ==
    IF orders = <<>>
    THEN [orders |-> <<>>, remainingStock |-> totalStock, errors |-> <<>>]
    ELSE LET before == AutoWalkRunningCredit(customers, SubSeq(orders, 1, Len(orders) - 1),
                                             totalStock)
             spent(customerId) ==
                 SumAllocated([i \in 1..Len(before.orders) |->
                     [allocatedQty |-> IF before.orders[i].customerId = customerId
                                       THEN before.orders[i].total ELSE 0]])
             left == [i \in 1..Len(customers) |->
                         [customers[i] EXCEPT !.creditRemaining =
                             JsMax(0, JsSub(customers[i].creditRemaining,
                                            spent(customers[i].id)))]]
             step == AutoOrder(left, orders[Len(orders)], before.remainingStock)
         IN [orders |-> Append(before.orders, step.order),
             remainingStock |-> step.remainingStock,
             errors |-> before.errors \o step.errors]

\* newOrders.forEach over the sorted orders, threading remainingStock and newErrors
RECURSIVE AutoWalk(_, _, _)
AutoWalk(customers, orders, totalStock) ==
    IF orders = <<>>
    THEN [orders |-> <<>>, remainingStock |-> totalStock, errors |-> <<>>]
    ELSE LET before == AutoWalk(customers, SubSeq(orders, 1, Len(orders) - 1), totalStock)
             step == AutoOrder(customers, orders[Len(orders)], before.remainingStock)
         IN [orders |-> Append(before.orders, step.order),
             remainingStock |-> step.remainingStock,
             errors |-> before.errors \o step.errors]

\* the state and the errors that runAutoAssignment sets, from the state s it is called in
AutoState(s) ==
    LET newOrders == SortOrders(s.customers, s.orders)
        pass == AutoWalk(s.customers, newOrders, s.totalStock)
    IN [state |-> [s EXCEPT !.orders = pass.orders,
                            !.remainingStock = pass.remainingStock],
        errors |-> pass.errors]

\* What the array state.orders that runAutoAssignment was called with holds once the
\* call has returned.  newOrders = [...state.orders] (line 74) copies the array, not
\* the order objects: the sort permutes the copy, and the assignments of lines
\* 100-101 write to the objects that the old array still holds.
InputOrdersAfterAuto ==
    LET walked == AutoState(state).state.orders
    IN [i \in 1..Len(state.orders) |->
           walked[CHOOSE j \in 1..Len(walked) : walked[j].id = state.orders[i].id]]

runAutoAssignment ==
    /\ versionKey < MaxVersion
    /\ state' = AutoState(state).state
    /\ errors' = AutoState(state).errors
    /\ versionKey' = versionKey + 1
    /\ lastCall' = [op |-> "runAutoAssignment", orderId |-> ""]

(***************************************************************************)
(* updateAllocation (lines 123-172).                                       *)
(***************************************************************************)
\* Math.min(Math.max(0, newQty), requestedQty, maxAffordableQty, maxAvailableQty)
ConstrainedQty(newQty, requestedQty, maxAffordableQty, maxAvailableQty) ==
    JsMin(JsMin(JsMin(JsMax(0, newQty), requestedQty), maxAffordableQty), maxAvailableQty)

\* the two tests of lines 164 and 166 in the other order
UpdateErrorsStockFirst(orderId, newQty, constrainedQty, maxAffordableQty, maxAvailableQty) ==
    IF JsLt(constrainedQty, newQty)
    THEN IF JsStrictEq(constrainedQty, maxAvailableQty)
         THEN <<"Order " \o orderId \o ": Limited by available stock">>
         ELSE IF JsStrictEq(constrainedQty, maxAffordableQty)
              THEN <<"Order " \o orderId \o ": Limited by customer credit">>
              ELSE <<>>
    ELSE <<>>

\* lines 162-169
UpdateErrors(orderId, newQty, constrainedQty, maxAffordableQty, maxAvailableQty) ==
    IF JsLt(constrainedQty, newQty)
    THEN IF JsStrictEq(constrainedQty, maxAffordableQty)
         THEN <<"Order " \o orderId \o ": Limited by customer credit">>
         ELSE IF JsStrictEq(constrainedQty, maxAvailableQty)
              THEN <<"Order " \o orderId \o ": Limited by available stock">>
              ELSE <<>>
    ELSE <<>>

\* an early return that still reaches the setErrors and setVersionKey of lines 170-171
UpdateNotFoundClearsErrors ==
    /\ errors' = <<>>
    /\ versionKey' = versionKey + 1
    /\ UNCHANGED state

\* the early returns of lines 127 and 132
UpdateNotFound ==
    UNCHANGED <<state, errors, versionKey>>

\* the version bump of line 171
UpdateVersion ==
    versionKey' = versionKey + 1

\* an update that also overwrites the suggestion of the target
UpdatedOrdersSetsSuggestion(newOrders, orderIndex, constrainedQty) ==
    [newOrders EXCEPT ![orderIndex] =
        [newOrders[orderIndex] EXCEPT
            !.allocatedQty = constrainedQty,
            !.suggestion = constrainedQty,
            !.total = JsMul(constrainedQty, newOrders[orderIndex].pricePerUnit)]]

\* newOrders[orderIndex] = {...order, allocatedQty, total} (lines 147-151)
UpdatedOrders(newOrders, orderIndex, constrainedQty) ==
    [newOrders EXCEPT ![orderIndex] =
        [newOrders[orderIndex] EXCEPT
            !.allocatedQty = constrainedQty,
            !.total = JsMul(constrainedQty, newOrders[orderIndex].pricePerUnit)]]

updateAllocation(orderId, newQty) ==
    LET newOrders == state.orders
        orderIndex == FindIndex(newOrders, orderId)
    IN /\ lastCall' = [op |-> "updateAllocation", orderId |-> orderId]
       /\ IF orderIndex = 0
          THEN UpdateNotFound
          ELSE LET order == newOrders[orderIndex]
                   c == FindCustomer(state.customers, order.customerId)
               IN IF c = 0
                  THEN UpdateNotFound
                  ELSE LET customer == state.customers[c]
                           maxAffordableQty ==
                               FloorDiv(customer.creditRemaining, order.pricePerUnit)
                           currentAllocatedTotal == SumAllocatedExcept(newOrders, orderId)
                           maxAvailableQty == JsSub(state.totalStock, currentAllocatedTotal)
                           constrainedQty ==
                               ConstrainedQty(newQty, order.requestedQty,
                                              maxAffordableQty, maxAvailableQty)
                           updated == UpdatedOrders(newOrders, orderIndex, constrainedQty)
                           newRemainingStock ==
                               JsSub(state.totalStock, SumAllocated(updated))
                       IN /\ versionKey < MaxVersion
                          /\ state' = [state EXCEPT !.orders = updated,
                                                    !.remainingStock = newRemainingStock]
                          /\ errors' = UpdateErrors(orderId, newQty, constrainedQty,
                                                    maxAffordableQty, maxAvailableQty)
                          /\ UpdateVersion

(***************************************************************************)
(* resetAllocations (lines 174-188).                                       *)
(***************************************************************************)
\* a reset that forgets the derived total
ResetOrderKeepsTotal(order) == [order EXCEPT !.allocatedQty = 0]

\* a reset that takes the total from the quantity the order held before the reset
ResetOrderStaleTotal(order) ==
    [order EXCEPT !.allocatedQty = 0,
                  !.total = JsMul(order.allocatedQty, order.pricePerUnit)]

ResetOrder(order) == [order EXCEPT !.allocatedQty = 0, !.total = 0]

\* the state that resetAllocations sets, from the state s it is called in
ResetState(s) ==
    LET resetOrders == [i \in 1..Len(s.orders) |-> ResetOrder(s.orders[i])]
    IN [s EXCEPT !.orders = resetOrders, !.remainingStock = s.totalStock]

resetAllocations ==
    /\ versionKey < MaxVersion
    /\ state' = ResetState(state)
    /\ errors' = <<>>
    /\ versionKey' = versionKey + 1
    /\ lastCall' = [op |-> "resetAllocations", orderId |-> ""]

(***************************************************************************)
(* saveAllocations (lines 190-193): an alert, no state change.             *)
(***************************************************************************)
saveAllocations ==
    /\ UNCHANGED <<state, errors, versionKey>>
    /\ lastCall' = [op |-> "saveAllocations", orderId |-> ""]

(***************************************************************************)
(* addNewOrder (lines 195-211).                                            *)
(***************************************************************************)
\* an id derived from the count without the + 1
NewOrderIdFromCount(orders) == OrderId(Len(orders))

NewOrderId(orders) == OrderId(Len(orders) + 1)

\* an order put in front of the others instead of after them
addNewOrderPrepends ==
    /\ Len(state.orders) < MaxOrders
    /\ LET newOrder == NewOrderRecord(NewOrderId(state.orders), "company1", 1,
                                      DefaultPricePerUnit)
       IN state' = [state EXCEPT !.orders = <<newOrder>> \o state.orders]
    /\ UNCHANGED <<errors, versionKey>>
    /\ lastCall' = [op |-> "addNewOrder", orderId |-> ""]

addNewOrder ==
    /\ Len(state.orders) < MaxOrders
    /\ LET newOrder == NewOrderRecord(NewOrderId(state.orders), "company1", 1,
                                      DefaultPricePerUnit)
       IN state' = [state EXCEPT !.orders = Append(state.orders, newOrder)]
    /\ UNCHANGED <<errors, versionKey>>
    /\ lastCall' = [op |-> "addNewOrder", orderId |-> ""]

(***************************************************************************)
(* Inputs of updateAllocation: the ids of the orders and one id that       *)
(* matches none; quantities below zero, in range and above every request.  *)
(***************************************************************************)
OrderIds == {state.orders[i].id : i \in 1..Len(state.orders)} \cup {OrderId(MaxOrders + 1)}
NewQtys(orderId) ==
    ((-1)..MaxNewQty) \cup
    {state.orders[i].suggestion : i \in {j \in 1..Len(state.orders) : state.orders[j].id = orderId}}

Next ==
    \/ runAutoAssignment
    \/ \E orderId \in OrderIds : \E newQty \in NewQtys(orderId) : updateAllocation(orderId, newQty)
    \/ resetAllocations
    \/ saveAllocations
    \/ addNewOrder

Spec == Init /\ [][Next]_vars

(***************************************************************************)
(* The engine on other sessions than the hard-coded one: any stock, two    *)
(* customers with any credit, two orders with any request and price, each  *)
(* of one of the customers or of a customer that does not exist.  Orders   *)
(* start as the lifecycle creates them: nothing allocated, ids in sequence.*)
(***************************************************************************)
GenCredits == {0, MaxCredit}
GenPrices == {0, 1, MaxPrice}
GenRequests == {1, MaxReq}

GenInit ==
    /\ \E credit1 \in GenCredits, credit2 \in GenCredits,
          customer1 \in {"company1", "nobody"}, customer2 \in {"company1", "company2"},
          requested2 \in GenRequests,
          price1 \in GenPrices, price2 \in GenPrices :
            state = [totalStock |-> MaxStock,
                     remainingStock |-> MaxStock,
                     orders |-> <<NewOrderRecord(OrderId(1), customer1, MaxReq, price1),
                                  NewOrderRecord(OrderId(2), customer2, requested2, price2)>>,
                     customers |-> <<[id |-> "company1", creditRemaining |-> credit1,
                                      closingBalance |-> credit1],
                                     [id |-> "company2", creditRemaining |-> credit2,
                                      closingBalance |-> credit2]>>,
                     products |-> <<[id |-> "product", pricePerUnit |-> price1]>>]
    /\ errors = <<>>
    /\ versionKey = 1
    /\ lastCall = NoCall

GenSpec == GenInit /\ [][Next]_vars

(***************************************************************************)
(* Vocabulary of the properties.                                           *)
(***************************************************************************)
Orders == state.orders
OrderIndexes == 1..Len(state.orders)

HasCustomer(order) == FindCustomer(state.customers, order.customerId) # 0
CustomerOf(order) == state.customers[FindCustomer(state.customers, order.customerId)]

\* the position of the order with this id in a sequence of orders with distinct ids
PositionOf(orders, orderId) == CHOOSE i \in 1..Len(orders) : orders[i].id = orderId

AllNumbers(orders) == \A i \in 1..Len(orders) : IsNum(orders[i].allocatedQty)

Min2(a, b) == IF a <= b THEN a ELSE b
Max2(a, b) == IF a >= b THEN a ELSE b
Clamp(x, lower, upper) == IF x < lower THEN lower ELSE IF x > upper THEN upper ELSE x

\* the most units the order's customer can pay for; Infinity when the price is zero
Affordable(order) ==
    IF order.pricePerUnit = 0 THEN Infinity
    ELSE CustomerOf(order).creditRemaining \div order.pricePerUnit

\* the kinds of steps (a step that changes nothing satisfies every [][A]_vars)
AutoStep == lastCall'.op = "runAutoAssignment"
ResetDone == lastCall.op = "resetAllocations"
UpdateStep == lastCall'.op = "updateAllocation"

\* the call of updateAllocation of this step has a target order with a customer
TargetFound ==
    /\ FindIndex(state.orders, lastCall'.orderId) # 0
    /\ HasCustomer(state.orders[FindIndex(state.orders, lastCall'.orderId)])

(***************************************************************************)
(* C1: stock is never over-allocated: in every state reached by the        *)
(* operations, the allocated quantities sum to at most totalStock,         *)
(* remainingStock is totalStock minus that sum, and it is not negative.    *)
(***************************************************************************)
StockNeverOverAllocated ==
    /\ AllNumbers(state.orders)
    /\ SumAllocated(state.orders) <= state.totalStock
    /\ state.remainingStock = state.totalStock - SumAllocated(state.orders)
    /\ state.remainingStock >= 0

(***************************************************************************)
(* C2: every order has 0 <= allocatedQty <= requestedQty after every       *)
(* operation.                                                              *)
(***************************************************************************)
AllocatedWithinRequested ==
    \A i \in OrderIndexes :
        /\ IsNum(state.orders[i].allocatedQty)
        /\ 0 <= state.orders[i].allocatedQty
        /\ state.orders[i].allocatedQty <= state.orders[i].requestedQty

(***************************************************************************)
(* C3: credit is a hard cap per order: allocatedQty * pricePerUnit is at   *)
(* most the creditRemaining of the order's customer, after every operation.*)
(***************************************************************************)
CreditIsHardCap ==
    \A i \in OrderIndexes :
        HasCustomer(state.orders[i]) =>
            /\ IsNum(state.orders[i].allocatedQty)
            /\ state.orders[i].allocatedQty * state.orders[i].pricePerUnit
                  <= CustomerOf(state.orders[i]).creditRemaining

(***************************************************************************)
(* C4: a manual update whose target order and customer exist leaves the    *)
(* target with allocatedQty = clamp(desiredQty, 0, min(requestedQty,       *)
(* maxAffordableQty, maxAvailableQty)), where maxAvailableQty is           *)
(* totalStock minus what the other orders hold.                            *)
(***************************************************************************)
ManualUpdateClamps ==
    [][\A orderId \in OrderIds : \A newQty \in NewQtys(orderId) :
          LET target == state.orders[FindIndex(state.orders, orderId)]
              maxAvailableQty == state.totalStock - SumAllocatedExcept(state.orders, orderId)
              upper == Min2(Min2(target.requestedQty, Affordable(target)), maxAvailableQty)
              after == state'.orders[FindIndex(state.orders, orderId)]
          IN (/\ updateAllocation(orderId, newQty)
              /\ FindIndex(state.orders, orderId) # 0
              /\ HasCustomer(target)
              /\ IsNum(SumAllocatedExcept(state.orders, orderId)))
             => after.allocatedQty = Clamp(newQty, 0, upper)]_vars

(***************************************************************************)
(* C5: auto-assignment serves the orders by descending creditRemaining of  *)
(* their customer: the pass leaves the orders in the sequence it walked    *)
(* them, an order of a customer with more credit comes before one with     *)
(* less and so draws from the stock first, and orders of equal credit keep *)
(* the relative order they had before the pass.                            *)
(***************************************************************************)
AutoServesByCredit ==
    [][AutoStep =>
          LET before == state.orders
              after == state'.orders
              key(o) == SortKey(state.customers, o)
          IN /\ Len(after) = Len(before)
             /\ {after[i].id : i \in 1..Len(after)} = {before[i].id : i \in 1..Len(before)}
             /\ \A i, j \in 1..Len(after) :
                   i < j =>
                      /\ key(after[i]) >= key(after[j])
                      /\ key(after[i]) = key(after[j]) =>
                            PositionOf(before, after[i].id) < PositionOf(before, after[j].id)
             /\ \A j \in 1..Len(after) :
                   AllNumbers(SubSeq(after, 1, j)) =>
                      after[j].allocatedQty
                         <= state.totalStock - SumAllocated(SubSeq(after, 1, j - 1))]_vars

\* a pass has moved ORDER-002 in front and given it stock, and has kept ORDER-001
\* before ORDER-003, which has the same credit
AutoReorderedWitness ==
    /\ lastCall.op = "runAutoAssignment"
    /\ Len(state.orders) = 3
    /\ state.orders[1].id = OrderId(2)
    /\ state.orders[1].allocatedQty > 0
    /\ IsNum(state.orders[1].allocatedQty)
    /\ state.orders[2].id = OrderId(1)
    /\ state.orders[3].id = OrderId(3)
    /\ SortKey(state.customers, state.orders[2]) = SortKey(state.customers, state.orders[3])
    /\ SortKey(state.customers, state.orders[1]) > SortKey(state.customers, state.orders[2])

(***************************************************************************)
(* C6: after resetAllocations, whatever came before, every order has       *)
(* allocatedQty = 0 and total = 0, remainingStock = totalStock and the     *)
(* error list is empty; and reset can be called in every state.            *)
(***************************************************************************)
ResetPostcondition ==
    /\ ResetDone =>
          /\ \A i \in OrderIndexes :
                state.orders[i].allocatedQty = 0 /\ state.orders[i].total = 0
          /\ state.remainingStock = state.totalStock
          /\ errors = <<>>
    /\ versionKey < MaxVersion => ENABLED resetAllocations

\* a reset after an auto-assignment pass: the pass has left ORDER-002 in front
ResetAfterAutoWitness ==
    /\ ResetDone
    /\ versionKey >= 3
    /\ state.orders[1].id = OrderId(2)

(***************************************************************************)
(* C7: updateAllocation with an id that matches no order, or whose order   *)
(* has a customer that does not exist, changes nothing: orders,            *)
(* remainingStock, the error list and versionKey stay as they were.        *)
(***************************************************************************)
NotFoundIsNoOp ==
    [][(UpdateStep /\ ~TargetFound) => UNCHANGED <<state, errors, versionKey>>]_vars

\* an update of an order whose customer does not exist, called while the error
\* list holds the diagnostic of an earlier update
NotFoundWitness ==
    /\ lastCall.op = "updateAllocation"
    /\ FindIndex(state.orders, lastCall.orderId) # 0
    /\ ~HasCustomer(state.orders[FindIndex(state.orders, lastCall.orderId)])
    /\ errors # <<>>
    /\ versionKey > 1

(***************************************************************************)
(* C8: a zero price is unbounded affordability: for an order with          *)
(* pricePerUnit = 0, whatever the credit of its customer (0 included),     *)
(* runAutoAssignment and updateAllocation give it an integer allocatedQty  *)
(* limited only by requestedQty and the stock that is available.           *)
(***************************************************************************)
ZeroPriceIsUnbounded ==
    [][/\ AutoStep =>
             \A j \in 1..Len(state'.orders) :
                LET after == state'.orders
                    available == state.totalStock - SumAllocated(SubSeq(after, 1, j - 1))
                IN (/\ after[j].pricePerUnit = 0
                    /\ HasCustomer(after[j])
                    /\ AllNumbers(SubSeq(after, 1, j - 1)))
                   => after[j].allocatedQty
                         = Max2(0, Min2(after[j].requestedQty, available))
       /\ \A orderId \in OrderIds : \A newQty \in NewQtys(orderId) :
             LET target == state.orders[FindIndex(state.orders, orderId)]
                 available == state.totalStock - SumAllocatedExcept(state.orders, orderId)
                 after == state'.orders[FindIndex(state.orders, orderId)]
             IN (/\ updateAllocation(orderId, newQty)
                 /\ FindIndex(state.orders, orderId) # 0
                 /\ HasCustomer(target)
                 /\ target.pricePerUnit = 0
                 /\ IsNum(SumAllocatedExcept(state.orders, orderId)))
                => after.allocatedQty
                      = Clamp(newQty, 0, Min2(target.requestedQty, available))]_vars

(***************************************************************************)
(* C9: versionKey never decreases, and each of runAutoAssignment, an       *)
(* updateAllocation that finds its target, resetAllocations, addNewOrder   *)
(* and saveAllocations increments it by exactly one.                       *)
(***************************************************************************)
VersionKeyCountsEveryOperation ==
    [][/\ versionKey' >= versionKey
       /\ AutoStep => versionKey' = versionKey + 1
       /\ (UpdateStep /\ TargetFound) => versionKey' = versionKey + 1
       /\ lastCall'.op = "resetAllocations" => versionKey' = versionKey + 1
       /\ lastCall'.op = "addNewOrder" => versionKey' = versionKey + 1
       /\ lastCall'.op = "saveAllocations" => versionKey' = versionKey + 1]_vars

(***************************************************************************)
(* C10: order ids are unique and stable: no two orders share an id, and    *)
(* every order present before an operation is present after it, with the   *)
(* same id, customer, product, requested quantity, suggestion and price.   *)
(***************************************************************************)
OrderIdsUniqueAndStable ==
    /\ [](\A i, j \in OrderIndexes : i # j => state.orders[i].id # state.orders[j].id)
    /\ [][\A i \in 1..Len(state.orders) :
             \E j \in 1..Len(state'.orders) :
                /\ state'.orders[j].id = state.orders[i].id
                /\ state'.orders[j].customerId = state.orders[i].customerId
                /\ state'.orders[j].productId = state.orders[i].productId
                /\ state'.orders[j].requestedQty = state.orders[i].requestedQty
                /\ state'.orders[j].suggestion = state.orders[i].suggestion
                /\ state'.orders[j].pricePerUnit = state.orders[i].pricePerUnit]_vars

\* an order was added after a pass had reordered the orders, and another after it
OrdersAddedWitness ==
    /\ lastCall.op = "addNewOrder"
    /\ versionKey > 1
    /\ Len(state.orders) >= 3
    /\ state.orders[1].id = OrderId(2)
    /\ state.orders[Len(state.orders)].id = OrderId(Len(state.orders))

(***************************************************************************)
(* C11: addNewOrder appends exactly one order at the end, with             *)
(* requestedQty = 1, allocatedQty = 0, suggestion = 1, total = 0 and the   *)
(* default price, and changes nothing else: the orders it found, in their  *)
(* sequence, totalStock, remainingStock, customers and products.           *)
(***************************************************************************)
AddNewOrderAppendsOne ==
    [][lastCall'.op = "addNewOrder" =>
          LET n == Len(state.orders)
              added == state'.orders[n + 1]
          IN /\ Len(state'.orders) = n + 1
             /\ SubSeq(state'.orders, 1, n) = state.orders
             /\ added.requestedQty = 1
             /\ added.allocatedQty = 0
             /\ added.suggestion = 1
             /\ added.total = 0
             /\ added.pricePerUnit = DefaultPricePerUnit
             /\ state'.totalStock = state.totalStock
             /\ state'.remainingStock = state.remainingStock
             /\ state'.customers = state.customers
             /\ state'.products = state.products]_vars

\* an order was added while an earlier order holds stock
AddedToAllocatedWitness ==
    /\ lastCall.op = "addNewOrder"
    /\ Len(state.orders) = 3
    /\ state.orders[3].allocatedQty = 0
    /\ state.orders[3].requestedQty = 1
    /\ state.orders[1].allocatedQty > 0
    /\ IsNum(state.remainingStock)
    /\ state.remainingStock < state.totalStock

(***************************************************************************)
(* C12: runAutoAssignment has no side effects on its input: the orders of  *)
(* the state it was called with read the same after the call as before.    *)
(***************************************************************************)
AutoLeavesInputUntouched ==
    [][AutoStep => InputOrdersAfterAuto = state.orders]_vars

(***************************************************************************)
(* C13: every order has total = allocatedQty * pricePerUnit, with its own  *)
(* price, after every operation.                                           *)
(***************************************************************************)
TotalIsAllocatedTimesPrice ==
    \A i \in OrderIndexes :
        /\ IsNum(state.orders[i].allocatedQty)
        /\ IsNum(state.orders[i].total)
        /\ state.orders[i].total
              = state.orders[i].allocatedQty * state.orders[i].pricePerUnit

(***************************************************************************)
(* C14: reset is idempotent: from every state s, reset(reset(s)) is        *)
(* reset(s); a reset called right after a reset leaves the state as it is. *)
(***************************************************************************)
ResetIsIdempotent ==
    /\ ResetState(ResetState(state)) = ResetState(state)
    /\ ResetDone => ResetState(state) = state

\* a reset that followed another operation: resetting again gives the same state
ResetTwiceWitness ==
    /\ ResetDone
    /\ versionKey >= 3
    /\ Len(state.orders) >= 3
    /\ ResetState(state) = state

(***************************************************************************)
(* C15: the arithmetic of the auto-assignment pass: walking the orders in  *)
(* priority order with one running counter seeded at totalStock, each      *)
(* order gets allocatedQty = max(0, min(requestedQty, counter,             *)
(* maxAffordableQty)) and total = allocatedQty * pricePerUnit, the counter *)
(* goes down by allocatedQty, and remainingStock is its final value; the   *)
(* quantities that the orders held before the pass play no part.           *)
(***************************************************************************)
AutoPassArithmetic ==
    [][AutoStep =>
          LET after == state'.orders
              counter(j) == state.totalStock - SumAllocated(SubSeq(after, 1, j - 1))
          IN /\ \A j \in 1..Len(after) :
                   (HasCustomer(after[j]) /\ AllNumbers(SubSeq(after, 1, j - 1))) =>
                      /\ after[j].allocatedQty
                            = Max2(0, Min2(Min2(after[j].requestedQty, counter(j)),
                                           Affordable(after[j])))
                      /\ after[j].total = after[j].allocatedQty * after[j].pricePerUnit
             /\ AllNumbers(after) =>
                   state'.remainingStock = state.totalStock - SumAllocated(after)]_vars

(***************************************************************************)
(* C16: the diagnostic of a manual update that found its target: if the    *)
(* request was clipped (constrainedQty < desiredQty) and constrainedQty is *)
(* maxAffordableQty, the list is the one message "Limited by customer      *)
(* credit" (also when maxAvailableQty is the same number); if it was       *)
(* clipped to maxAvailableQty and not to maxAffordableQty, the one message *)
(* "Limited by available stock"; otherwise the list is empty.  Each        *)
(* message names the order: "Order <id>: ...".                             *)
(***************************************************************************)
UpdateDiagnostic ==
    [][\A orderId \in OrderIds : \A newQty \in NewQtys(orderId) :
          LET target == state.orders[FindIndex(state.orders, orderId)]
              constrainedQty == state'.orders[FindIndex(state.orders, orderId)].allocatedQty
              maxAffordableQty == Affordable(target)
              maxAvailableQty == state.totalStock - SumAllocatedExcept(state.orders, orderId)
              expected ==
                  IF ~IsNum(constrainedQty) THEN <<>>
                  ELSE IF constrainedQty < newQty /\ constrainedQty = maxAffordableQty
                       THEN <<"Order " \o orderId \o ": Limited by customer credit">>
                  ELSE IF constrainedQty < newQty /\ constrainedQty = maxAvailableQty
                       THEN <<"Order " \o orderId \o ": Limited by available stock">>
                  ELSE <<>>
          IN (/\ updateAllocation(orderId, newQty)
              /\ FindIndex(state.orders, orderId) # 0
              /\ HasCustomer(target))
             => errors' = expected]_vars

\* an update clipped to a quantity that is both what the customer can pay for and
\* what the stock has left: the message is the one about credit
CreditWinsTieWitness ==
    /\ lastCall.op = "updateAllocation"
    /\ FindIndex(state.orders, lastCall.orderId) # 0
    /\ LET target == state.orders[FindIndex(state.orders, lastCall.orderId)]
       IN /\ HasCustomer(target)
          /\ target.pricePerUnit > 0
          /\ IsNum(target.allocatedQty)
          /\ IsNum(SumAllocatedExcept(state.orders, lastCall.orderId))
          /\ target.allocatedQty = Affordable(target)
          /\ target.allocatedQty
                = state.totalStock - SumAllocatedExcept(state.orders, lastCall.orderId)
          /\ target.allocatedQty < target.requestedQty
          /\ errors = <<"Order " \o lastCall.orderId \o ": Limited by customer credit">>

(***************************************************************************)
(* C17: same-customer double counting: a pass checks every order against   *)
(* the whole creditRemaining of its customer, whatever the other orders of *)
(* that customer were given: an order that the stock left for it and that  *)
(* credit cover gets all it requests.  So two orders of one customer can   *)
(* hold totals that together exceed the customer's creditRemaining, as     *)
(* after addNewOrder and runAutoAssignment from the initial state.         *)
(***************************************************************************)
AutoChecksOriginalCredit ==
    [][AutoStep =>
          LET after == state'.orders
              counter(j) == state.totalStock - SumAllocated(SubSeq(after, 1, j - 1))
          IN \A j \in 1..Len(after) :
                (/\ HasCustomer(after[j])
                 /\ AllNumbers(SubSeq(after, 1, j - 1))
                 /\ after[j].requestedQty <= counter(j)
                 /\ after[j].requestedQty * after[j].pricePerUnit
                       <= CustomerOf(after[j]).creditRemaining)
                => after[j].allocatedQty = after[j].requestedQty]_vars

\* after a pass, two orders of one customer hold more than the customer's credit
DoubleCountingWitness ==
    /\ lastCall.op = "runAutoAssignment"
    /\ \E i, j \in OrderIndexes :
          /\ i # j
          /\ state.orders[i].customerId = state.orders[j].customerId
          /\ HasCustomer(state.orders[i])
          /\ IsNum(state.orders[i].total) /\ IsNum(state.orders[j].total)
          /\ state.orders[i].total > 0 /\ state.orders[j].total > 0
          /\ state.orders[i].total <= CustomerOf(state.orders[i]).creditRemaining
          /\ state.orders[j].total <= CustomerOf(state.orders[j]).creditRemaining
          /\ state.orders[i].total + state.orders[j].total
                > CustomerOf(state.orders[i]).creditRemaining

(***************************************************************************)
(* C18: the violation checks of the auto-assignment pass do not fire on    *)
(* normal inputs: when every order has requestedQty >= 0 and               *)
(* pricePerUnit > 0 and every customer has creditRemaining >= 0, the pass  *)
(* leaves the error list empty.                                            *)
(***************************************************************************)
NormalInputs ==
    /\ \A i \in OrderIndexes :
          state.orders[i].requestedQty >= 0 /\ state.orders[i].pricePerUnit > 0
    /\ \A i \in 1..Len(state.customers) : state.customers[i].creditRemaining >= 0

AutoEmitsNoViolation ==
    (lastCall.op = "runAutoAssignment" /\ NormalInputs) => errors = <<>>

\* a pass on normal inputs gave an order exactly what its customer's credit pays for
AutoAtCreditLimitWitness ==
    /\ lastCall.op = "runAutoAssignment"
    /\ NormalInputs
    /\ errors = <<>>
    /\ \E i \in OrderIndexes :
          /\ HasCustomer(state.orders[i])
          /\ state.orders[i].allocatedQty > 0
          /\ state.orders[i].allocatedQty * state.orders[i].pricePerUnit
                = CustomerOf(state.orders[i]).creditRemaining

(***************************************************************************)
(* C19: a manual update that found its target changes only the target's    *)
(* allocatedQty and total and the derived remainingStock (with the error   *)
(* list and versionKey): the other orders, the sequence of the orders, the *)
(* target's id, requestedQty, suggestion and pricePerUnit, and totalStock, *)
(* customers and products stay as they were.                               *)
(***************************************************************************)
UpdateTouchesOnlyTarget ==
    [][(UpdateStep /\ TargetFound) =>
          LET at == FindIndex(state.orders, lastCall'.orderId)
          IN /\ Len(state'.orders) = Len(state.orders)
             /\ \A i \in 1..Len(state.orders) : i # at => state'.orders[i] = state.orders[i]
             /\ state'.orders[at].id = state.orders[at].id
             /\ state'.orders[at].customerId = state.orders[at].customerId
             /\ state'.orders[at].productId = state.orders[at].productId
             /\ state'.orders[at].requestedQty = state.orders[at].requestedQty
             /\ state'.orders[at].suggestion = state.orders[at].suggestion
             /\ state'.orders[at].pricePerUnit = state.orders[at].pricePerUnit
             /\ state'.totalStock = state.totalStock
             /\ state'.customers = state.customers
             /\ state'.products = state.products]_vars

\* an update gave its target less than its suggestion while another order holds stock
UpdateBesideAllocatedWitness ==
    /\ lastCall.op = "updateAllocation"
    /\ FindIndex(state.orders, lastCall.orderId) # 0
    /\ LET at == FindIndex(state.orders, lastCall.orderId)
       IN /\ HasCustomer(state.orders[at])
          /\ state.orders[at].allocatedQty > 0
          /\ state.orders[at].allocatedQty < state.orders[at].suggestion
          /\ \E i \in OrderIndexes : i # at /\ state.orders[i].allocatedQty > 0
          /\ IsNum(state.remainingStock)
          /\ state.remainingStock < state.totalStock

(***************************************************************************)
(* C20: auto-assignment is idempotent: a second runAutoAssignment right    *)
(* after a first gives the same state (quantities, totals, remainingStock, *)
(* sequence of the orders) and the same error list as the first alone.     *)
(***************************************************************************)
AutoIsIdempotent ==
    /\ AutoState(AutoState(state).state) = AutoState(state)
    /\ lastCall.op = "runAutoAssignment" =>
          AutoState(state) = [state |-> state, errors |-> errors]

\* a second operation was a pass that moved ORDER-002 in front of two orders of equal
\* credit and gave out stock: another pass finds the orders in its own order
AutoTwiceWitness ==
    /\ lastCall.op = "runAutoAssignment"
    /\ versionKey >= 3
    /\ Len(state.orders) = 3
    /\ state.orders[1].id = OrderId(2)
    /\ SortKey(state.customers, state.orders[2]) = SortKey(state.customers, state.orders[3])
    /\ \E i \in OrderIndexes :
          IsNum(state.orders[i].allocatedQty) /\ state.orders[i].allocatedQty > 0
    /\ SortOrders(state.customers, state.orders) = state.orders

====
